---- MODULE Spec2Model ----
(***************************************************************************)
(* Model of the image editor: the session state kept by the App component  *)
(* (src/App.tsx), the remote edit operation editImageWithPrompt            *)
(* (src/unnamed/part_000, imported as ./services/geminiService) and the    *)
(* canvas helpers (src/utils/fileUtils.ts).                                *)
(*                                                                         *)
(* Text is modelled as a sequence of chunks.  A chunk is either one        *)
(* character (a one-character string) or a fixed literal of the source,    *)
(* abbreviated in ASCII; no literal of the source contains the marker      *)
(* "SAFETY" or one of the quality keywords.  Numbers are exact rationals   *)
(* <<n, d>>; JavaScript doubles are idealised to them.                     *)
(*                                                                         *)
(* React specifics the model relies on: a handler closes over the state of *)
(* the render that created it; the state updates of one handler run, of    *)
(* one promise continuation or of one onload callback are committed        *)
(* together, and the effects of the following render run before the next   *)
(* event is handled.                                                       *)
(***************************************************************************)
EXTENDS Integers, Sequences, FiniteSets, TLC

\* ------------------------------------------------------------------ bounds
\* Image objects (uploads and results) created in one session.
MaxImages == 3
\* Reference files chosen in one session.
MaxAttach == 1
\* presses of a mouse button on the crop box that are followed
MaxPresses == 2

\* ------------------------------------------------------------------- nulls
\* null of a `string | null`: a text no program text equals.
NullText == <<"<null>">>
\* null of an object-valued state (crop, dimensions).
Null == [null |-> TRUE]
\* null of activeHistoryIndex (number | null).
NoIndex == -1

\* ------------------------------------------------------------- text helpers
\* String.prototype.includes: needle occurs in hay as a contiguous run.
Includes(hay, needle) ==
  \E i \in 0..(Len(hay) - Len(needle)) :
     \A k \in 1..Len(needle) : hay[i + k] = needle[k]

UpperChars == <<"A", "B", "C", "D", "E", "F", "G", "H", "I", "J", "K", "L", "M", "N", "O", "P", "Q", "R", "S", "T", "U", "V", "W", "X", "Y", "Z", "C-cedilla", "A-tilde", "I-acute">>
LowerChars == <<"a", "b", "c", "d", "e", "f", "g", "h", "i", "j", "k", "l", "m", "n", "o", "p", "q", "r", "s", "t", "u", "v", "w", "x", "y", "z", "c-cedilla", "a-tilde", "i-acute">>

LowerOf(c) ==
  IF \E i \in 1..Len(UpperChars) : UpperChars[i] = c
  THEN LowerChars[CHOOSE i \in 1..Len(UpperChars) : UpperChars[i] = c]
  ELSE c

\* String.prototype.toLowerCase
ToLowerCase(s) == [i \in 1..Len(s) |-> LowerOf(s[i])]

\* Array.prototype.join
RECURSIVE Join(_, _)
Join(lines, sep) ==
  IF Len(lines) = 0 THEN <<>>
  ELSE IF Len(lines) = 1 THEN lines[1]
  ELSE lines[1] \o sep \o Join(Tail(lines), sep)

\* Array.prototype.filter(Boolean) on an array of strings
RECURSIVE FilterBoolean(_)
FilterBoolean(lines) ==
  IF Len(lines) = 0 THEN <<>>
  ELSE (IF Head(lines) # <<>> THEN <<Head(lines)>> ELSE <<>>) \o FilterBoolean(Tail(lines))

\* JavaScript truthiness of a `string | null`
Truthy(s) == s # NullText /\ s # <<>>

\* --------------------------------------------- editImageWithPrompt (part_000)
\* Fixed texts of the source, abbreviated.
ApiKeyMessage == <<"A variavel de ambiente API_KEY nao esta definida.">>
NoImageMessage == <<"Nenhuma imagem foi gerada na resposta.">>
SafetyBlockedMessage == <<"A solicitacao foi bloqueada por configuracoes de seguranca.">>
UnknownErrorMessage == <<"Ocorreu um erro desconhecido.">>

Marker == <<"S", "A", "F", "E", "T", "Y">>

qualityKeywords ==
  <<
    <<"m", "e", "l", "h", "o", "r", "e", " ", "a", " ", "q", "u", "a", "l", "i", "d", "a", "d", "e">>,
    <<"a", "u", "m", "e", "n", "t", "e", " ", "a", " ", "q", "u", "a", "l", "i", "d", "a", "d", "e">>,
    <<"a", "l", "t", "a", " ", "r", "e", "s", "o", "l", "u", "c-cedilla", "a-tilde", "o">>,
    <<"m", "a", "i", "s", " ", "n", "i-acute", "t", "i", "d", "o">>,
    <<"m", "a", "i", "s", " ", "d", "e", "t", "a", "l", "h", "e", "s">>,
    <<"q", "u", "a", "l", "i", "d", "a", "d", "e", " ", "4", "k">>,
    <<"u", "l", "t", "r", "a", " ", "r", "e", "a", "l", "i", "s", "t", "a">>,
    <<"f", "o", "t", "o", "r", "r", "e", "a", "l", "i", "s", "t", "a">>,
    <<"h", "d">>,
    <<"u", "h", "d">>,
    <<"d", "e", "i", "x", "e", " ", "m", "a", "i", "s", " ", "r", "e", "a", "l">>,
    <<"m", "e", "l", "h", "o", "r", "a", "r", " ", "a", " ", "i", "m", "a", "g", "e", "m">>
  >>

\* parts, before the text part is pushed (lines 20-38)
ImageParts(base64ImageData, mimeType, attachedImageBase64, attachedImageMimeType) ==
  <<[inlineData |-> [data |-> base64ImageData, mimeType |-> mimeType]]>>
  \o (IF Truthy(attachedImageBase64) /\ Truthy(attachedImageMimeType)
      THEN <<[inlineData |-> [data |-> attachedImageBase64,
                              mimeType |-> attachedImageMimeType]]>>
      ELSE <<>>)

\* lines 44-51
qualityInstruction(quality) ==
  IF quality = "high" THEN <<"Gere a imagem com a mais alta fidelidade possivel...">>
  ELSE IF quality = "4k" THEN <<"Gere a imagem com detalhes fotorrealistas... tela 4K.">>
  ELSE <<>>

qualityInstructionCaseSensitive(prompt) ==
  IF \E i \in 1..Len(qualityKeywords) : Includes(prompt, qualityKeywords[i])
  THEN <<"O usuario solicitou um aumento explicito na qualidade...">>
  ELSE <<>>

\* lines 53-63
qualityInstructionFromPrompt(prompt) ==
  LET lowerCasePrompt == ToLowerCase(prompt) IN
  IF \E i \in 1..Len(qualityKeywords) : Includes(lowerCasePrompt, qualityKeywords[i])
  THEN <<"O usuario solicitou um aumento explicito na qualidade...">>
  ELSE <<>>

\* line 67
isOutpaintingTask(aspectRatio) == aspectRatio # "original"

\* lines 70-78
dimensionRule(dimensions, aspectRatio) ==
  IF isOutpaintingTask(aspectRatio)
  THEN <<"**REGRA INQUEBRAVEL:** ...EXATAMENTE as mesmas dimensoes da PRIMEIRA imagem (",
         ToString(dimensions.width), "x", ToString(dimensions.height),
         " pixels). A primeira imagem contem areas transparentes... preencher...">>
  ELSE <<"**REGRA INQUEBRAVEL:** ...EXATAMENTE as mesmas dimensoes e proporcao da PRIMEIRA imagem (",
         ToString(dimensions.width), "x", ToString(dimensions.height),
         " pixels). E PROIBIDO cortar, redimensionar ou alterar a proporcao original.">>

\* lines 81-86
editTask(prompt, aspectRatio) ==
  IF isOutpaintingTask(aspectRatio)
  THEN <<"**TAREFA DE EDICAO:** Dentro da area ja visivel (nao-transparente)... edicao: \"">>
       \o prompt \o <<"\". Se o comando for generico..., aplique-o em toda a cena final.">>
  ELSE <<"**TAREFA DE EDICAO:** Edite a PRIMEIRA imagem com base no seguinte comando: \"">>
       \o prompt \o <<"\".">>

\* line 91
referenceRule == <<"**AVISO:** A SEGUNDA imagem e apenas para referencia de estilo ou objeto...">>

\* line 96
qualityText(prompt, quality) ==
  Join(FilterBoolean(<<qualityInstruction(quality), qualityInstructionFromPrompt(prompt)>>),
       <<" ">>)

\* promptLines (lines 66-99)
promptLines(prompt, attachedImageBase64, dimensions, aspectRatio, quality) ==
  <<dimensionRule(dimensions, aspectRatio)>>
  \o <<editTask(prompt, aspectRatio)>>
  \o (IF Truthy(attachedImageBase64) THEN <<referenceRule>> ELSE <<>>)
  \o (IF qualityText(prompt, quality) # <<>>
      THEN <<<<"**QUALIDADE:** ">> \o qualityText(prompt, quality)>>
      ELSE <<>>)

BlankLine == <<"\n\n">>

\* line 101
enhancedPrompt(prompt, attachedImageBase64, dimensions, aspectRatio, quality) ==
  Join(promptLines(prompt, attachedImageBase64, dimensions, aspectRatio, quality), BlankLine)

\* parts as sent (lines 20-38, 104-106); a is the argument record
RequestParts(a) ==
  ImageParts(a.base64ImageData, a.mimeType, a.attachedImageBase64, a.attachedImageMimeType)
  \o <<[text |-> enhancedPrompt(a.prompt, a.attachedImageBase64, a.dimensions,
                                a.aspectRatio, a.quality)]>>

\* response.candidates?.[0]?.content?.parts || []   (line 118)
ResponseParts(response) ==
  IF "candidates" \notin DOMAIN response THEN <<>>
  ELSE IF Len(response.candidates) = 0 THEN <<>>
  ELSE IF "content" \notin DOMAIN response.candidates[1] THEN <<>>
  ELSE IF "parts" \notin DOMAIN response.candidates[1].content THEN <<>>
  ELSE response.candidates[1].content.parts

RECURSIVE LastInlineData(_, _)
LastInlineData(parts, i) ==
  IF i > Len(parts) THEN 0
  ELSE IF LastInlineData(parts, i + 1) > 0 THEN LastInlineData(parts, i + 1)
  ELSE IF "inlineData" \in DOMAIN parts[i] THEN i
  ELSE 0

\* the for loop of lines 118-122: index of the part it returns from, 0 if none
RECURSIVE FirstInlineData(_, _)
FirstInlineData(parts, i) ==
  IF i > Len(parts) THEN 0
  ELSE IF "inlineData" \in DOMAIN parts[i] THEN i
  ELSE FirstInlineData(parts, i + 1)

Resolve(data) == [resolved |-> TRUE, value |-> data]
Reject(err) == [resolved |-> FALSE, error |-> err]
NewError(message) == [isError |-> TRUE, message |-> message]

CatchApiErrorAtStart(err) ==
  IF err.isError /\ Len(err.message) >= Len(Marker)
     /\ SubSeq(err.message, 1, Len(Marker)) = Marker
  THEN Reject(NewError(SafetyBlockedMessage))
  ELSE Reject(err)

\* the catch block (lines 126-134)
CatchApiError(err) ==
  IF err.isError /\ Includes(err.message, Marker)
  THEN Reject(NewError(SafetyBlockedMessage))
  ELSE Reject(err)

\* the try block after generateContent settled (lines 110-124); sdk is what
\* the SDK call did: [response |-> r] or [thrown |-> e]
AfterGenerateContent(sdk) ==
  IF "thrown" \in DOMAIN sdk THEN CatchApiError(sdk.thrown)
  ELSE LET parts == ResponseParts(sdk.response)
           i == FirstInlineData(parts, 1)
       IN IF i > 0 THEN Resolve(parts[i].inlineData.data)
          ELSE CatchApiError(NewError(NoImageMessage))

\* err.message || 'Ocorreu um erro desconhecido.'   (App.tsx line 298)
ErrorShown(err) ==
  IF "message" \in DOMAIN err /\ err.message # <<>> THEN err.message
  ELSE UnknownErrorMessage

\* ------------------------------------------------------------ exact numbers
RECURSIVE GCD(_, _)
GCD(a, b) == IF b = 0 THEN a ELSE GCD(b, a % b)

Abs(x) == IF x < 0 THEN 0 - x ELSE x

\* the rational n/d (d # 0), in lowest terms with a positive denominator
Rat(n, d) ==
  LET g == GCD(Abs(n), Abs(d))
      sgn == IF d < 0 THEN 0 - 1 ELSE 1
  IN <<(sgn * n) \div g, (sgn * d) \div g>>

RInt(n) == <<n, 1>>
RAdd(a, b) == Rat(a[1] * b[2] + b[1] * a[2], a[2] * b[2])
RSub(a, b) == Rat(a[1] * b[2] - b[1] * a[2], a[2] * b[2])
RMul(a, b) == Rat(a[1] * b[1], a[2] * b[2])
RDiv(a, b) == Rat(a[1] * b[2], a[2] * b[1])
RGt(a, b) == a[1] * b[2] > b[1] * a[2]
RLt(a, b) == RGt(b, a)
RMin(a, b) == IF RLt(b, a) THEN b ELSE a
RMax(a, b) == IF RGt(b, a) THEN b ELSE a
\* Math.round: the nearest integer, halves rounded up
MathRound(a) == (2 * a[1] + a[2]) \div (2 * a[2])

\* ------------------------------------------------------- App.tsx, geometry
\* ratioStr.split(':') on the values an aspect-ratio string can take
SplitColon(ratioStr) ==
  CASE ratioStr = "1:1" -> <<"1", "1">>
    [] ratioStr = "16:9" -> <<"16", "9">>
    [] ratioStr = "9:16" -> <<"9", "16">>
    [] ratioStr = "4:5" -> <<"4", "5">>
    [] ratioStr = "3:1" -> <<"3", "1">>
    [] ratioStr = "7:2" -> <<"7", "2">>
    [] OTHER -> <<ratioStr>>

Numerals ==
  [s \in {"1", "2", "3", "4", "5", "7", "9", "16"} |->
     CASE s = "1" -> 1 [] s = "2" -> 2 [] s = "3" -> 3 [] s = "4" -> 4
       [] s = "5" -> 5 [] s = "7" -> 7 [] s = "9" -> 9 [] s = "16" -> 16]

\* isNaN(parseFloat(s))
IsNaNParseFloat(s) == s \notin DOMAIN Numerals

\* parseAspectRatio (lines 7-15): the ratio, or Null
parseAspectRatio(ratioStr) ==
  IF ratioStr = "original" THEN Null
  ELSE LET parts == SplitColon(ratioStr) IN
       IF Len(parts) # 2 THEN Null
       ELSE IF IsNaNParseFloat(parts[1]) \/ IsNaNParseFloat(parts[2]) THEN Null
       ELSE IF Numerals[parts[2]] = 0 THEN Null
       ELSE Rat(Numerals[parts[1]], Numerals[parts[2]])

\* targetAspectRatio of the crop effect and of handleGenerateClick
\* (lines 119-124, 248-253)
TargetAspectRatio(ar, attachedDims) ==
  IF ar = "reference" /\ attachedDims # Null
  THEN Rat(attachedDims.width, attachedDims.height)
  ELSE IF ar # "original" THEN parseAspectRatio(ar)
  ELSE Null

\* a `number | null` used as a condition: null and 0 are falsy
TruthyNumber(r) == r # Null /\ r[1] # 0

\* the image container: aspect-video (line 499), at a width the layout gives
containerRect == [width |-> 640, height |-> 360]

\* the contain-fit box of an image in the container (lines 130-139, 225-233)
RenderedSize(dimensions) ==
  LET originalRatio == Rat(dimensions.width, dimensions.height)
      cw == RInt(containerRect.width)
      ch == RInt(containerRect.height)
  IN IF RGt(originalRatio, RDiv(cw, ch))
     THEN [width |-> cw, height |-> RDiv(cw, originalRatio)]
     ELSE [width |-> RMul(ch, originalRatio), height |-> ch]

\* the rectangle the crop effect sets (lines 141-156)
InitialCrop(targetAspectRatio, dimensions) ==
  LET rendered == RenderedSize(dimensions)
      wide == RGt(targetAspectRatio, RDiv(rendered.width, rendered.height))
      cropWidth == IF wide THEN rendered.width
                   ELSE RMul(rendered.height, targetAspectRatio)
      cropHeight == IF wide THEN RDiv(rendered.width, targetAspectRatio)
                    ELSE rendered.height
  IN [x |-> RDiv(RSub(rendered.width, cropWidth), RInt(2)),
      y |-> RDiv(RSub(rendered.height, cropHeight), RInt(2)),
      width |-> cropWidth, height |-> cropHeight]

\* pixelCrop (lines 236-244)
PixelCrop(c, dimensions) ==
  LET rendered == RenderedSize(dimensions)
      scaleX == RDiv(RInt(dimensions.width), rendered.width)
      scaleY == RDiv(RInt(dimensions.height), rendered.height)
  IN [x |-> RMul(c.x, scaleX), y |-> RMul(c.y, scaleY),
      width |-> RMul(c.width, scaleX), height |-> RMul(c.height, scaleY)]

\* ------------------------------------------------------------ fileUtils.ts
\* the rectangle cropImage draws (lines 68-73)
CropRect(pixelCrop) ==
  [x |-> MathRound(pixelCrop.x), y |-> MathRound(pixelCrop.y),
   width |-> MathRound(pixelCrop.width), height |-> MathRound(pixelCrop.height)]

\* dimensions cropImage resolves with (line 97)
CropDimensions(pixelCrop) ==
  [width |-> CropRect(pixelCrop).width, height |-> CropRect(pixelCrop).height]

\* canvas and draw offset of padImage (lines 123-143) for a source of size dims
PadLayout(dims, targetAspectRatio) ==
  LET currentAspectRatio == Rat(dims.width, dims.height)
      w == RInt(dims.width)
      h == RInt(dims.height)
  IN IF RGt(currentAspectRatio, targetAspectRatio)
     THEN [width |-> dims.width,
           height |-> MathRound(RDiv(w, targetAspectRatio)),
           drawX |-> 0,
           drawY |-> MathRound(RDiv(RSub(RDiv(w, targetAspectRatio), h), RInt(2)))]
     ELSE [width |-> MathRound(RMul(h, targetAspectRatio)),
           height |-> dims.height,
           drawX |-> MathRound(RDiv(RSub(RMul(h, targetAspectRatio), w), RInt(2))),
           drawY |-> 0]

\* dimensions padImage resolves with (line 161)
PadDimensions(dims, targetAspectRatio) ==
  [width |-> PadLayout(dims, targetAspectRatio).width,
   height |-> PadLayout(dims, targetAspectRatio).height]

\* ------------------------------------------------------------ session state
VARIABLES
  history,                  \* HistoryItem[] (line 25)
  activeHistoryIndex,       \* number | null (line 26)
  prompt,                   \* line 28
  isLoading,                \* line 29
  error,                    \* line 30
  aspectRatio,              \* line 31
  quality,                  \* line 32
  attachedImage,            \* line 33
  attachedImageBase64,      \* line 34
  attachedImageMimeType,    \* line 35
  attachedImageName,        \* line 36
  attachedImageDimensions,  \* line 37
  crop,                     \* line 40
  isCropping,               \* line 41
  effectDeps,     \* the dependencies the crop effect last ran with (line 162)
  uploads,        \* handleFileChange runs waiting for image.onload
  attachments,    \* handleAttachedFileChange callbacks still to come
  requests,       \* handleGenerateClick runs that have not finished
  nextImage,      \* identity of the next image object
  nextAttach,     \* identity of the next reference file
  apiKey,         \* process.env.API_KEY is set
  call,           \* one call of editImageWithPrompt, taken alone
  cropInteractionRef,  \* cropInteractionRef.current (lines 46-52)
  presses,        \* how often a mouse button went down on the crop box
  canvas          \* one raster put through padImage, taken alone

vars ==
  <<history, activeHistoryIndex, prompt, isLoading, error, aspectRatio, quality,
    attachedImage, attachedImageBase64, attachedImageMimeType, attachedImageName,
    attachedImageDimensions, crop, isCropping, effectDeps, uploads, attachments,
    requests, nextImage, nextAttach, apiKey, call,
                 cropInteractionRef, presses, canvas>>

attachedVars ==
  <<attachedImage, attachedImageBase64, attachedImageMimeType, attachedImageName,
    attachedImageDimensions>>

\* ------------------------------------------------------------------ inputs
\* 4 * 1024 * 1024 (lines 85, 168)
MaxFileSize == 4 * 1024 * 1024

FileTooLargeMessage == <<"O tamanho do arquivo nao pode exceder 4MB.">>
AttachedTooLargeMessage == <<"O tamanho do arquivo anexado nao pode exceder 4MB.">>
MissingInputMessage == <<"Por favor, carregue uma imagem e insira um comando.">>
CropLoadMessage == <<"Falha ao carregar a imagem para o recorte: ">>
PadLoadMessage == <<"Falha ao carregar a imagem para o preenchimento: ">>
CanvasContextMessage == <<"Nao foi possivel obter o contexto do canvas.">>

\* the options of the aspect-ratio select (lines 458-465)
AspectRatioOptions ==
  {"original", "reference", "1:1", "16:9", "9:16", "4:5", "3:1", "7:2"}
\* the ones the model's user picks
ChosenRatios == {"original", "reference", "16:9"}
\* the options of the quality select (lines 477-479)
Qualities == {"standard", "high", "4k"}
ChosenQualities == {"standard", "high"}
\* instructions the model's user types
TypedPrompts == {<<>>, <<"H", "D">>}

ImageSizes == {[width |-> 600, height |-> 800]}
ReferenceSizes == {[width |-> 400, height |-> 300]}

\* the size checks of lines 85 and 168
TooLargeByOne(size) == size > MaxFileSize + 1
TooLarge(size) == size > MaxFileSize

\* primary files: size in bytes, MIME type, decoded size (Null: not an image)
PrimaryFiles ==
  [size : {MaxFileSize}, type : {<<"image/jpeg">>}, dimensions : ImageSizes \cup {Null}]
  \cup [size : {MaxFileSize + 1}, type : {<<"image/jpeg">>}, dimensions : ImageSizes]

\* reference files; type <<>> is a file whose type the browser cannot tell
ReferenceFiles ==
  [size : {MaxFileSize}, type : {<<"image/png">>}, dimensions : ReferenceSizes]
  \cup [size : {MaxFileSize + 1}, type : {<<"image/png">>}, dimensions : ReferenceSizes]

\* image data, as text
FileData(id) == <<"base64 of file ", ToString(id)>>
ReferenceData(id) == <<"base64 of reference ", ToString(id)>>
CroppedData(item, rect) ==
  <<"png: crop of image ", ToString(item.id), " at ", ToString(rect)>>
PaddedData(data, layout) == <<"png: padded ">> \o data \o <<" as ", ToString(layout)>>
ResultData(dims) == <<"png ", ToString(dims.width), "x", ToString(dims.height)>>

\* the size an <img> reports for result data, Null if it never loads
DecodedSize(data) ==
  IF \E d \in ImageSizes : data = ResultData(d)
  THEN CHOOSE d \in ImageSizes : data = ResultData(d)
  ELSE Null

\* what the SDK call does in a session
SessionSdkOutcomes ==
  {[response |-> [candidates |-> <<[content |-> [parts |-> <<[inlineData |->
        [data |-> ResultData(d), mimeType |-> <<"image/png">>]]>>]]>>]] : d \in ImageSizes}
  \cup {[response |-> [candidates |-> <<[content |-> [parts |-> <<[text |-> <<"x">>]>>]]>>]],
        [response |-> [promptFeedback |-> "blocked"]],
        [response |-> [candidates |-> <<[content |-> [parts |-> <<[inlineData |->
             [data |-> <<"no image">>, mimeType |-> <<"image/png">>]]>>]]>>]],
        [thrown |-> NewError(<<"x">> \o Marker)],
        [thrown |-> NewError(<<"4", "2", "9">>)]}

\* --------------------------------------------------------- derived state
\* currentImage (lines 54-57); an index out of range reads undefined
CurrentImageOf(h, i) == IF i # NoIndex /\ i < Len(h) THEN h[i + 1] ELSE Null

currentImage == CurrentImageOf(history, activeHistoryIndex)

fieldsetIgnoresLoading == currentImage = Null
\* <fieldset disabled={!currentImage || isLoading}> (line 414)
fieldsetDisabled == currentImage = Null \/ isLoading

RemoveAt(seq, i) == SubSeq(seq, 1, i - 1) \o SubSeq(seq, i + 1, Len(seq))

\* ------------------------------------------------- the crop effect (117-162)
DepsOf(ar, cur, dims) ==
  [aspectRatio |-> ar, currentImage |-> cur, attachedImageDimensions |-> dims]

\* The render after a commit.  ar, cur, dims: the committed aspect ratio,
\* current image and reference dimensions; c, ic: crop and isCropping as the
\* handler left them.  The effect runs when a dependency changed.
Render(ar, cur, dims, c, ic) ==
  LET targetAspectRatio == TargetAspectRatio(ar, dims) IN
  IF DepsOf(ar, cur, dims) = effectDeps
  THEN crop' = c /\ isCropping' = ic /\ effectDeps' = effectDeps
  ELSE /\ effectDeps' = DepsOf(ar, cur, dims)
       /\ IF TruthyNumber(targetAspectRatio) /\ cur # Null
          THEN /\ crop' = InitialCrop(targetAspectRatio, cur.dimensions)
               /\ isCropping' = TRUE
          ELSE /\ crop' = Null
               /\ isCropping' = FALSE

\* a render of a commit that touched none of crop, isCropping or the
\* effect's dependencies
RenderSame == UNCHANGED <<crop, isCropping, effectDeps>>

\* the initial value of cropInteractionRef (line 52)
NoInteraction ==
  [isDragging |-> FALSE, isResizing |-> FALSE, startX |-> 0, startY |-> 0,
   startCrop |-> Null]

\* -------------------------------------------------------------------- Init
Init ==
  /\ history = <<>>
  /\ activeHistoryIndex = NoIndex
  /\ prompt \in TypedPrompts            \* localStorage (line 28)
  /\ isLoading = FALSE
  /\ error = NullText
  /\ aspectRatio \in ChosenRatios       \* localStorage (line 31)
  /\ quality = "standard"
  /\ attachedImage = NullText
  /\ attachedImageBase64 = NullText
  /\ attachedImageMimeType = NullText
  /\ attachedImageName = NullText
  /\ attachedImageDimensions = Null
  /\ crop = Null
  /\ isCropping = FALSE
  /\ effectDeps = DepsOf(aspectRatio, Null, Null)
  /\ uploads = {}
  /\ attachments = {}
  /\ requests = <<>>
  /\ nextImage = 1
  /\ nextAttach = 1
  /\ apiKey \in BOOLEAN
  /\ call = [pc |-> "none"]
  /\ cropInteractionRef = NoInteraction
  /\ presses = 0
  /\ canvas = [pc |-> "none"]

\* ------------------------------------------------- resetState (lines 68-81)
\* resetState is memoised with no dependencies, so the removeAttachedImage it
\* calls is the first render's; its conditional setAspectRatio('original')
\* repeats line 75.
resetState ==
  /\ history' = <<>>
  /\ activeHistoryIndex' = NoIndex
  /\ error' = NullText
  /\ prompt' = <<>>
  /\ aspectRatio' = "original"
  /\ quality' = "standard"
  /\ attachedImage' = NullText
  /\ attachedImageBase64' = NullText
  /\ attachedImageMimeType' = NullText
  /\ attachedImageName' = NullText
  /\ attachedImageDimensions' = Null
  /\ Render("original", Null, Null, Null, FALSE)

\* the reset button (lines 531-537), rendered while there is a current image
Reset ==
  /\ currentImage # Null
  /\ resetState
  /\ UNCHANGED <<isLoading, uploads, attachments, requests, nextImage, nextAttach, apiKey, call,
                 cropInteractionRef, presses, canvas>>

\* ------------------------------------------- handleFileChange (lines 83-108)
\* Reached from the file input and from a drop on the image container
\* (lines 305-308, 500, 506); the container takes drops in every state.
handleFileChange(file) ==
  /\ nextImage <= MaxImages
  /\ IF TooLarge(file.size)
     THEN /\ error' = FileTooLargeMessage
          /\ UNCHANGED <<history, activeHistoryIndex, prompt, aspectRatio, quality,
                         attachedVars, crop, isCropping, effectDeps, uploads, nextImage>>
     ELSE /\ resetState
          \* a file that is no image never fires image.onload
          /\ IF file.dimensions = Null
             THEN UNCHANGED <<uploads, nextImage>>
             ELSE /\ uploads' = uploads \cup {[id |-> nextImage, file |-> file]}
                  /\ nextImage' = nextImage + 1
  /\ UNCHANGED <<isLoading, attachments, requests, nextAttach, apiKey, call,
                 cropInteractionRef, presses, canvas>>

\* image.onload of handleFileChange (lines 95-105)
uploadLoaded(u) ==
  /\ u \in uploads
  /\ uploads' = uploads \ {u}
  /\ history' = <<[id |-> u.id, base64 |-> FileData(u.id), mimeType |-> u.file.type,
                   dimensions |-> u.file.dimensions]>>
  /\ activeHistoryIndex' = 0
  /\ error' = NullText
  /\ Render(aspectRatio, CurrentImageOf(history', activeHistoryIndex'),
            attachedImageDimensions, crop, isCropping)
  /\ UNCHANGED <<prompt, isLoading, aspectRatio, quality, attachedVars, attachments,
                 requests, nextImage, nextAttach, apiKey, call,
                 cropInteractionRef, presses, canvas>>

\* ---------------------------------------- handleHistorySelect (lines 110-115)
handleHistorySelect(index) ==
  /\ index \in 0..(Len(history) - 1)
  /\ IF isLoading
     THEN UNCHANGED <<activeHistoryIndex, crop, isCropping, effectDeps>>
     ELSE /\ activeHistoryIndex' = index
          /\ Render(aspectRatio, CurrentImageOf(history, index),
                    attachedImageDimensions, Null, FALSE)
  /\ UNCHANGED <<history, prompt, isLoading, error, aspectRatio, quality, attachedVars,
                 uploads, attachments, requests, nextImage, nextAttach, apiKey, call,
                 cropInteractionRef, presses, canvas>>

\* ------------------------------------------------- controls of the fieldset
\* the textarea (line 421)
setPrompt(text) ==
  /\ ~fieldsetDisabled
  /\ prompt' = text
  /\ RenderSame
  /\ UNCHANGED <<history, activeHistoryIndex, isLoading, error, aspectRatio, quality,
                 attachedVars, uploads, attachments, requests, nextImage, nextAttach,
                 apiKey, call,
                 cropInteractionRef, presses, canvas>>

\* the aspect-ratio select (lines 452-466); "reference" is offered while a
\* reference image is attached
setAspectRatio(value) ==
  /\ ~fieldsetDisabled
  /\ value = "reference" => attachedImage # NullText
  /\ aspectRatio' = value
  /\ Render(value, currentImage, attachedImageDimensions, crop, isCropping)
  /\ UNCHANGED <<history, activeHistoryIndex, prompt, isLoading, error, quality,
                 attachedVars, uploads, attachments, requests, nextImage, nextAttach,
                 apiKey, call,
                 cropInteractionRef, presses, canvas>>

\* the quality select (lines 471-480)
setQuality(value) ==
  /\ ~fieldsetDisabled
  /\ quality' = value
  /\ RenderSame
  /\ UNCHANGED <<history, activeHistoryIndex, prompt, isLoading, error, aspectRatio,
                 attachedVars, uploads, attachments, requests, nextImage, nextAttach,
                 apiKey, call,
                 cropInteractionRef, presses, canvas>>

\* ---------------------------------- handleAttachedFileChange (lines 165-186)
\* The attach button is rendered while no reference is attached (432-447).
handleAttachedFileChange(file) ==
  /\ ~fieldsetDisabled
  /\ attachedImage = NullText
  /\ nextAttach <= MaxAttach
  /\ IF TooLarge(file.size)
     THEN /\ error' = AttachedTooLargeMessage
          /\ UNCHANGED <<attachedImage, attachedImageName, attachments, nextAttach>>
     ELSE /\ attachedImageName' = <<"reference ", ToString(nextAttach)>>
          /\ attachedImage' = <<"blob:reference ", ToString(nextAttach)>>
          /\ attachments' = attachments \cup
               {[id |-> nextAttach, file |-> file, step |-> "onload"],
                [id |-> nextAttach, file |-> file, step |-> "fileToBase64"]}
          /\ nextAttach' = nextAttach + 1
          /\ UNCHANGED error
  /\ RenderSame
  /\ UNCHANGED <<history, activeHistoryIndex, prompt, isLoading, aspectRatio, quality,
                 attachedImageBase64, attachedImageMimeType, attachedImageDimensions,
                 uploads, requests, nextImage, apiKey, call,
                 cropInteractionRef, presses, canvas>>

\* image.onload of the reference (lines 177-179)
attachedImageLoaded(a) ==
  /\ a \in attachments
  /\ a.step = "onload"
  /\ attachments' = attachments \ {a}
  /\ attachedImageDimensions' =
       [width |-> a.file.dimensions.width, height |-> a.file.dimensions.height,
        of |-> a.id]
  /\ Render(aspectRatio, currentImage, attachedImageDimensions', crop, isCropping)
  /\ UNCHANGED <<history, activeHistoryIndex, prompt, isLoading, error, aspectRatio,
                 quality, attachedImage, attachedImageBase64, attachedImageMimeType,
                 attachedImageName, uploads, requests, nextImage, nextAttach, apiKey, call,
                 cropInteractionRef, presses, canvas>>

\* after await fileToBase64 (lines 182-184)
attachedFileRead(a) ==
  /\ a \in attachments
  /\ a.step = "fileToBase64"
  /\ attachments' = attachments \ {a}
  /\ attachedImageBase64' = ReferenceData(a.id)
  /\ attachedImageMimeType' = a.file.type
  /\ RenderSame
  /\ UNCHANGED <<history, activeHistoryIndex, prompt, isLoading, error, aspectRatio,
                 quality, attachedImage, attachedImageName, attachedImageDimensions,
                 uploads, requests, nextImage, nextAttach, apiKey, call,
                 cropInteractionRef, presses, canvas>>

\* removeAttachedImage (lines 188-200), from the button of line 438
removeAttachedImage ==
  /\ ~fieldsetDisabled
  /\ attachedImage # NullText
  /\ attachedImage' = NullText
  /\ attachedImageBase64' = NullText
  /\ attachedImageMimeType' = NullText
  /\ attachedImageName' = NullText
  /\ attachedImageDimensions' = Null
  /\ aspectRatio' = IF aspectRatio = "reference" THEN "original" ELSE aspectRatio
  /\ Render(aspectRatio', currentImage, Null, crop, isCropping)
  /\ UNCHANGED <<history, activeHistoryIndex, prompt, isLoading, error, quality, uploads,
                 attachments, requests, nextImage, nextAttach, apiKey, call,
                 cropInteractionRef, presses, canvas>>

\* --------------------------------------- handleGenerateClick (lines 202-302)
\* What a run of handleGenerateClick holds: the state of the render whose
\* button was clicked, and its locals.
NewRequest ==
  [pc |-> "start",
   history |-> history,
   activeHistoryIndex |-> activeHistoryIndex,
   currentImage |-> currentImage,
   prompt |-> prompt,
   aspectRatio |-> aspectRatio,
   quality |-> quality,
   attachedImageBase64 |-> attachedImageBase64,
   attachedImageMimeType |-> attachedImageMimeType,
   attachedImageDimensions |-> attachedImageDimensions,
   crop |-> crop,
   isCropping |-> isCropping,
   imageToSend |-> currentImage.base64,              \* line 212
   mimeTypeToSend |-> currentImage.mimeType,         \* line 213
   dimensionsToSend |-> [width |-> currentImage.dimensions.width,
                         height |-> currentImage.dimensions.height],  \* line 214
   sent |-> "original"]

\* the arguments of the call of lines 268-278
EditArgs(r) ==
  [base64ImageData |-> r.imageToSend,
   mimeType |-> r.mimeTypeToSend,
   prompt |-> r.prompt,
   attachedImageBase64 |-> r.attachedImageBase64,
   attachedImageMimeType |-> r.attachedImageMimeType,
   dimensions |-> r.dimensionsToSend,
   aspectRatio |-> r.aspectRatio,
   quality |-> r.quality,
   attachedImageDimensions |-> r.attachedImageDimensions]

CatchBlockDropsActive(err, rest) ==
  /\ error' = ErrorShown(err)
  /\ isLoading' = FALSE
  /\ requests' = rest
  /\ history' = SubSeq(history, 1, Len(history) - 1)
  /\ activeHistoryIndex' = IF Len(history) > 1 THEN 0 ELSE NoIndex

\* catch and finally (lines 297-301) of a run that failed with err; rest are
\* the other unfinished runs
CatchBlock(err, rest) ==
  /\ error' = ErrorShown(err)
  /\ isLoading' = FALSE
  /\ requests' = rest
  /\ UNCHANGED <<history, activeHistoryIndex>>

\* A run awaiting generateContent.  Of the state it closed over, the code
\* after the await reads history and activeHistoryIndex (line 290); the
\* record keeps those, what was sent and how the image to send was made.
Calling(r) ==
  [pc |-> "generateContent",
   history |-> r.history,
   activeHistoryIndex |-> r.activeHistoryIndex,
   prompt |-> r.prompt,
   aspectRatio |-> r.aspectRatio,
   sent |-> r.sent,
   parts |-> RequestParts(EditArgs(r))]

\* The call of line 268 by run r, the other unfinished runs being before and
\* after; loading and err are isLoading and error as the run has left them.
\* editImageWithPrompt throws at once without an API key (part_000 lines
\* 14-16), else builds its parts and awaits generateContent (lines 18-116).
callEditImageWithPrompt(r, before, after, loading, err) ==
  IF ~apiKey
  THEN CatchBlock(NewError(ApiKeyMessage), before \o after)
  ELSE /\ requests' = before \o <<Calling(r)>> \o after
       /\ isLoading' = loading
       /\ error' = err
       /\ UNCHANGED <<history, activeHistoryIndex>>

\* the click on "Gerar Imagem" (line 484), up to the first await
handleGenerateClick ==
  /\ ~fieldsetDisabled
  /\ IF prompt = <<>> \/ currentImage = Null
     THEN /\ error' = MissingInputMessage
          /\ UNCHANGED <<history, activeHistoryIndex, isLoading, requests>>
     ELSE IF isCropping /\ crop # Null
          THEN /\ requests' = Append(requests, [NewRequest EXCEPT !.pc = "imageEl"])
               /\ isLoading' = TRUE
               /\ error' = NullText
               /\ UNCHANGED <<history, activeHistoryIndex>>
          ELSE callEditImageWithPrompt(NewRequest, requests, <<>>, TRUE, NullText)
  /\ RenderSame
  /\ UNCHANGED <<prompt, aspectRatio, quality, attachedVars, uploads, attachments,
                 nextImage, nextAttach, apiKey, call,
                 cropInteractionRef, presses, canvas>>

UnchangedByRequestStep ==
  UNCHANGED <<prompt, aspectRatio, quality, attachedVars, crop, isCropping, effectDeps,
              uploads, attachments, nextAttach, apiKey, call,
                 cropInteractionRef, presses, canvas>>

Before(i) == SubSeq(requests, 1, i - 1)
After(i) == SubSeq(requests, i + 1, Len(requests))

\* imageEl.onload (lines 217-246): pixelCrop is computed, cropImage is called
imageElLoaded(i) ==
  /\ i \in 1..Len(requests)
  /\ requests[i].pc = "imageEl"
  /\ requests' = [requests EXCEPT
                    ![i] = [requests[i] EXCEPT !.pc = "cropImage"] @@
                           [pixelCrop |-> PixelCrop(requests[i].crop,
                                                    requests[i].currentImage.dimensions)]]
  /\ UNCHANGED <<history, activeHistoryIndex, isLoading, error, nextImage>>
  /\ UnchangedByRequestStep

\* imageEl fails to load: line 219 awaits onload alone
imageElError(i) ==
  /\ i \in 1..Len(requests)
  /\ requests[i].pc = "imageEl"
  /\ requests' = [requests EXCEPT ![i] = [pc |-> "hung"]]
  /\ UNCHANGED <<history, activeHistoryIndex, isLoading, error, nextImage>>
  /\ UnchangedByRequestStep

\* cropImage settles (lines 246-265; fileUtils.ts lines 55-106)
cropImageSettled(i, resolved) ==
  /\ i \in 1..Len(requests)
  /\ requests[i].pc \in {"cropImage", "cropImage again"}
  /\ LET r == requests[i]
         rect == CropRect(r.pixelCrop)
         data == CroppedData(r.currentImage, rect)
         targetAspectRatioValue == TargetAspectRatio(r.aspectRatio, r.attachedImageDimensions)
     IN IF ~resolved
        THEN CatchBlock(NewError(CropLoadMessage), RemoveAt(requests, i))
        ELSE IF r.pc = "cropImage again"
        THEN callEditImageWithPrompt(
               [r EXCEPT !.imageToSend = data, !.mimeTypeToSend = <<"image/png">>,
                         !.dimensionsToSend = CropDimensions(r.pixelCrop),
                         !.sent = "cropped"],
               Before(i), After(i), isLoading, error)
        ELSE /\ requests' = [requests EXCEPT
                  ![i] = [r EXCEPT !.pc = IF TruthyNumber(targetAspectRatioValue)
                                          THEN "padImage" ELSE "cropImage again"]
                         @@ [croppedBase64 |-> data]]
             /\ UNCHANGED <<history, activeHistoryIndex, isLoading, error>>
  /\ UNCHANGED nextImage
  /\ UnchangedByRequestStep

padImageSettledCallsAnyway(i, resolved) ==
  /\ i \in 1..Len(requests)
  /\ requests[i].pc = "padImage"
  /\ LET r == requests[i]
         target == TargetAspectRatio(r.aspectRatio, r.attachedImageDimensions)
         source == CropDimensions(r.pixelCrop)
     IN IF ~resolved
        THEN callEditImageWithPrompt(
               [r EXCEPT !.imageToSend = r.croppedBase64,
                         !.mimeTypeToSend = <<"image/png">>,
                         !.dimensionsToSend = source,
                         !.sent = "cropped"],
               Before(i), After(i), isLoading, error)
        ELSE callEditImageWithPrompt(
               [r EXCEPT !.imageToSend = PaddedData(r.croppedBase64, PadLayout(source, target)),
                         !.mimeTypeToSend = <<"image/png">>,
                         !.dimensionsToSend = PadDimensions(source, target),
                         !.sent = "padded"],
               Before(i), After(i), isLoading, error)
  /\ UNCHANGED nextImage
  /\ UnchangedByRequestStep

\* padImage settles (lines 255-259; fileUtils.ts lines 120-167)
padImageSettled(i, resolved) ==
  /\ i \in 1..Len(requests)
  /\ requests[i].pc = "padImage"
  /\ LET r == requests[i]
         target == TargetAspectRatio(r.aspectRatio, r.attachedImageDimensions)
         source == CropDimensions(r.pixelCrop)
     IN IF ~resolved
        THEN CatchBlock(NewError(PadLoadMessage), RemoveAt(requests, i))
        ELSE callEditImageWithPrompt(
               [r EXCEPT !.imageToSend = PaddedData(r.croppedBase64, PadLayout(source, target)),
                         !.mimeTypeToSend = <<"image/png">>,
                         !.dimensionsToSend = PadDimensions(source, target),
                         !.sent = "padded"],
               Before(i), After(i), isLoading, error)
  /\ UNCHANGED nextImage
  /\ UnchangedByRequestStep

\* generateContent settles (part_000 lines 110-134); on a result the run sets
\* newImage.src and ends through finally (App.tsx lines 280-301)
generateContentSettled(i, sdk) ==
  /\ i \in 1..Len(requests)
  /\ requests[i].pc = "generateContent"
  /\ LET r == requests[i]
         outcome == AfterGenerateContent(sdk)
     IN IF ~outcome.resolved
        THEN CatchBlock(outcome.error, RemoveAt(requests, i)) /\ UNCHANGED nextImage
        ELSE /\ isLoading' = FALSE
             /\ UNCHANGED <<history, activeHistoryIndex, error>>
             /\ IF DecodedSize(outcome.value) = Null
                \* data that is no image never fires newImage.onload
                THEN requests' = RemoveAt(requests, i) /\ UNCHANGED nextImage
                ELSE /\ nextImage <= MaxImages
                     /\ nextImage' = nextImage + 1
                     /\ requests' = [requests EXCEPT
                           ![i] = [pc |-> "newImage",
                                   history |-> r.history,
                                   activeHistoryIndex |-> r.activeHistoryIndex,
                                   resultBase64 |-> outcome.value,
                                   resultImage |-> nextImage]]
  /\ UnchangedByRequestStep

\* line 290: history.slice(0, activeHistoryIndex! + 1)
BranchedHistory(h, i) == SubSeq(h, 1, i + 1)

ActiveAfterAllEntries(h, i) == Len(h)
\* line 293: newHistory.length
ActiveAfterEdit(h, i) == Len(BranchedHistory(h, i))

\* newImage.onload (lines 282-294), with the history and the active index of
\* the render whose button was clicked
newImageLoaded(i) ==
  /\ i \in 1..Len(requests)
  /\ requests[i].pc = "newImage"
  /\ LET r == requests[i]
         newHistoryItem == [id |-> r.resultImage, base64 |-> r.resultBase64,
                            mimeType |-> <<"image/png">>,
                            dimensions |-> DecodedSize(r.resultBase64)]
         newHistory == BranchedHistory(r.history, r.activeHistoryIndex)
     IN /\ history' = newHistory \o <<newHistoryItem>>
        /\ activeHistoryIndex' = ActiveAfterEdit(r.history, r.activeHistoryIndex)
  /\ requests' = RemoveAt(requests, i)
  /\ Render(aspectRatio, CurrentImageOf(history', activeHistoryIndex'),
            attachedImageDimensions, crop, isCropping)
  /\ UNCHANGED <<prompt, isLoading, error, aspectRatio, quality, attachedVars, uploads,
                 attachments, nextImage, nextAttach, apiKey, call,
                 cropInteractionRef, presses, canvas>>

\* -------------------------------------------------------------------- Next
Next ==
  \/ \E file \in PrimaryFiles : handleFileChange(file)
  \/ \E u \in uploads : uploadLoaded(u)
  \/ Reset
  \/ \E index \in 0..(MaxImages - 1) : handleHistorySelect(index)
  \/ \E text \in TypedPrompts : setPrompt(text)
  \/ \E value \in ChosenRatios : setAspectRatio(value)
  \/ \E value \in ChosenQualities : setQuality(value)
  \/ \E file \in ReferenceFiles : handleAttachedFileChange(file)
  \/ \E a \in attachments : attachedImageLoaded(a)
  \/ \E a \in attachments : attachedFileRead(a)
  \/ removeAttachedImage
  \/ handleGenerateClick
  \/ \E i \in 1..MaxImages : imageElLoaded(i)
  \/ \E i \in 1..MaxImages : imageElError(i)
  \/ \E i \in 1..MaxImages, resolved \in BOOLEAN : cropImageSettled(i, resolved)
  \/ \E i \in 1..MaxImages, resolved \in BOOLEAN : padImageSettled(i, resolved)
  \/ \E i \in 1..MaxImages, sdk \in SessionSdkOutcomes : generateContentSettled(i, sdk)
  \/ \E i \in 1..MaxImages : newImageLoaded(i)

Spec == Init /\ [][Next]_vars

\* ------------------------------------- editImageWithPrompt, one call alone
\* instructions passed to a call (App.tsx line 203 lets no empty one through)
CallPrompts ==
  {<<"x">>, <<"h", "d">>, <<"H", "D">>, <<"U", "h", "D">>, <<"x", "H", "d", "x">>,
   <<"h", "x", "d">>, <<"d", "h">>, <<"h", " ", "d">>,
   <<"M", "A", "I", "S", " ", "N", "I-acute", "T", "I", "D", "O">>,
   <<"m", "a", "i", "s", " ", "n", "i", "t", "i", "d", "o">>}

\* attachedImageBase64 and attachedImageMimeType as lines 183-184 and 190-191
\* set them: both null, or the data and file.type of one file; an empty file
\* has no data, a file of unknown type has type ''
CallReferences ==
  {<<NullText, NullText>>}
  \cup ({ReferenceData(1), <<>>} \X {<<"image/png">>, <<>>})

CallArguments ==
  {[base64ImageData |-> FileData(1),
    mimeType |-> <<"image/jpeg">>,
    prompt |-> p,
    attachedImageBase64 |-> ref[1],
    attachedImageMimeType |-> ref[2],
    dimensions |-> d,
    aspectRatio |-> ar,
    quality |-> q,
    attachedImageDimensions |-> IF ref[1] = NullText THEN Null
                                ELSE [width |-> 400, height |-> 300, of |-> 1]] :
     p \in CallPrompts, ref \in CallReferences, d \in ImageSizes,
     ar \in ChosenRatios, q \in Qualities}

TextPart == [text |-> <<"ok">>]
ImagePart(d) == [inlineData |-> [data |-> ResultData(d), mimeType |-> <<"image/png">>]]
ResultSizes == ImageSizes \cup {[width |-> 1024, height |-> 1024]}

\* parts a candidate can carry
CandidateParts ==
  {<<>>, <<TextPart>>, <<TextPart, TextPart>>}
  \cup {<<ImagePart(d)>> : d \in ResultSizes}
  \cup {<<TextPart, ImagePart(d)>> : d \in ResultSizes}
  \cup {<<ImagePart(d), TextPart>> : d \in ResultSizes}
  \cup {<<TextPart, ImagePart(d), ImagePart(e)>> : d, e \in ResultSizes}

Candidates ==
  {[content |-> [parts |-> ps]] : ps \in CandidateParts}
  \cup {[finishReason |-> "SAFETY"], [content |-> [role |-> "model"]]}

\* a second candidate, which line 118 never reads
OtherCandidates == {[content |-> [parts |-> <<ImagePart(d)>>]] : d \in ResultSizes}

Responses ==
  {[promptFeedback |-> "blocked"], [candidates |-> <<>>]}
  \cup {[candidates |-> <<c>>] : c \in Candidates}
  \cup {[candidates |-> <<c, o>>] : c \in Candidates, o \in OtherCandidates}

\* messages of the errors generateContent rejects with
ThrownMessages ==
  {pre \o mid \o post :
     pre \in {<<>>, <<"x", " ">>},
     mid \in {Marker, <<"S", "A", "F", "E", "T">>, <<"s", "a", "f", "e", "t", "y">>,
              <<"S", "A", "F", "E", " ", "T", "Y">>, <<"4", "2", "9">>, <<>>},
     post \in {<<>>, <<"!">>}}
  \cup {NoImageMessage}

\* the SDK and fetch reject with Error objects
SdkOutcomes ==
  {[response |-> r] : r \in Responses}
  \cup {[thrown |-> NewError(m)] : m \in ThrownMessages}

InitCall ==
  /\ history = <<>>
  /\ activeHistoryIndex = NoIndex
  /\ prompt = <<>>
  /\ isLoading = FALSE
  /\ error = NullText
  /\ aspectRatio = "original"
  /\ quality = "standard"
  /\ attachedImage = NullText
  /\ attachedImageBase64 = NullText
  /\ attachedImageMimeType = NullText
  /\ attachedImageName = NullText
  /\ attachedImageDimensions = Null
  /\ crop = Null
  /\ isCropping = FALSE
  /\ effectDeps = DepsOf(aspectRatio, Null, Null)
  /\ uploads = {}
  /\ attachments = {}
  /\ requests = <<>>
  /\ nextImage = 1
  /\ nextAttach = 1
  /\ apiKey \in BOOLEAN
  /\ \E a \in CallArguments : call = [pc |-> "called", args |-> a]
  /\ cropInteractionRef = NoInteraction
  /\ presses = 0
  /\ canvas = [pc |-> "none"]

sessionVars ==
  <<history, activeHistoryIndex, prompt, isLoading, error, aspectRatio, quality,
    attachedImage, attachedImageBase64, attachedImageMimeType, attachedImageName,
    attachedImageDimensions, crop, isCropping, effectDeps, uploads, attachments,
    requests, nextImage, nextAttach, apiKey, cropInteractionRef, presses, canvas>>

\* lines 14-16
callThrowsWithoutKey ==
  /\ call.pc = "called"
  /\ ~apiKey
  /\ call' = [pc |-> "settled", args |-> call.args, parts |-> <<>>,
              outcome |-> Reject(NewError(ApiKeyMessage))]
  /\ UNCHANGED sessionVars

\* lines 18-116: the parts are built and generateContent is awaited
callSends ==
  /\ call.pc = "called"
  /\ apiKey
  /\ call' = [pc |-> "awaiting", args |-> call.args, parts |-> RequestParts(call.args)]
  /\ UNCHANGED sessionVars

\* lines 118-134
callSettles(sdk) ==
  /\ call.pc = "awaiting"
  /\ call' = [pc |-> "settled", args |-> call.args, parts |-> call.parts, sdk |-> sdk,
              outcome |-> AfterGenerateContent(sdk)]
  /\ UNCHANGED sessionVars

NextCall ==
  \/ callThrowsWithoutKey
  \/ callSends
  \/ \E sdk \in SdkOutcomes : callSettles(sdk)

SpecCall == InitCall /\ [][NextCall]_vars

\* ------------------------------ the crop gestures (App.tsx lines 311-381)
\* images and aspect ratios the gestures are followed on
CropImageSizes == {[width |-> 600, height |-> 800], [width |-> 800, height |-> 600]}
CropRatios == {"16:9", "1:1", "reference"}
\* clientX and clientY of the mouse events
PointerXs == {0, 40, 700}
PointerYs == {0, 40, 700}

\* One image is loaded, an aspect ratio is selected (for "reference", with a
\* reference attached) and the crop effect has run (lines 117-162).
InitCrop ==
  /\ \E d \in CropImageSizes :
       history = <<[id |-> 1, base64 |-> FileData(1), mimeType |-> <<"image/jpeg">>,
                    dimensions |-> d]>>
  /\ activeHistoryIndex = 0
  /\ prompt = <<"H", "D">>
  /\ isLoading = FALSE
  /\ error = NullText
  /\ aspectRatio \in CropRatios
  /\ quality = "standard"
  /\ IF aspectRatio = "reference"
     THEN /\ attachedImage = <<"blob:reference ", "1">>
          /\ attachedImageBase64 = ReferenceData(1)
          /\ attachedImageMimeType = <<"image/png">>
          /\ attachedImageName = <<"reference ", "1">>
          /\ attachedImageDimensions = [width |-> 400, height |-> 300, of |-> 1]
     ELSE /\ attachedImage = NullText
          /\ attachedImageBase64 = NullText
          /\ attachedImageMimeType = NullText
          /\ attachedImageName = NullText
          /\ attachedImageDimensions = Null
  /\ crop = InitialCrop(TargetAspectRatio(aspectRatio, attachedImageDimensions),
                        history[1].dimensions)
  /\ isCropping = TRUE
  /\ effectDeps = DepsOf(aspectRatio, history[1], attachedImageDimensions)
  /\ uploads = {}
  /\ attachments = {}
  /\ requests = <<>>
  /\ nextImage = 2
  /\ nextAttach = 1
  /\ apiKey = TRUE
  /\ call = [pc |-> "none"]
  /\ cropInteractionRef = NoInteraction
  /\ presses = 0
  /\ canvas = [pc |-> "none"]

\* a mouse button is held on the crop box or on its handle
Gesture == cropInteractionRef.isDragging \/ cropInteractionRef.isResizing

UnchangedByGesture ==
  UNCHANGED <<history, activeHistoryIndex, prompt, isLoading, error, aspectRatio, quality,
              attachedVars, isCropping, effectDeps, uploads, attachments, requests,
              nextImage, nextAttach, apiKey, call, canvas>>

\* handleCropMouseDown (lines 311-336), from the crop box (line 553) or its
\* resize handle (line 557), which are rendered if isCropping && crop
\* (line 538) and lie under the loading overlay while isLoading (lines
\* 510-518); a button is pressed again only after its release.
handleCropMouseDown(clientX, clientY, isResizing) ==
  /\ isCropping /\ crop # Null
  /\ ~isLoading
  /\ ~Gesture
  /\ presses < MaxPresses
  /\ presses' = presses + 1
  /\ cropInteractionRef' =
       [isDragging |-> ~isResizing, isResizing |-> isResizing,
        startX |-> clientX, startY |-> clientY, startCrop |-> crop]
  /\ UNCHANGED crop
  /\ UnchangedByGesture

\* lines 354-356
DragMove(startCrop, dx, dy) ==
  [startCrop EXCEPT !.x = RAdd(startCrop.x, RInt(dx)), !.y = RAdd(startCrop.y, RInt(dy))]

DragResizeToWidthOnly(startCrop, dx, targetRatio, rect) ==
  LET grown == RAdd(startCrop.width, RInt(dx))
      newWidth == IF RGt(RAdd(startCrop.x, grown), RInt(rect.width))
                  THEN RSub(RInt(rect.width), startCrop.x) ELSE grown
      newHeight == RDiv(newWidth, targetRatio)
  IN IF RLt(newWidth, RInt(20)) \/ RLt(newHeight, RInt(20)) THEN Null
     ELSE [startCrop EXCEPT !.width = newWidth, !.height = newHeight]

\* lines 357-374: the resized rectangle, Null where line 370 returns
DragResize(startCrop, dx, targetRatio, rect) ==
  LET grown == RAdd(startCrop.width, RInt(dx))
      tooWide == RGt(RAdd(startCrop.x, grown), RInt(rect.width))
      width1 == IF tooWide THEN RSub(RInt(rect.width), startCrop.x) ELSE grown
      height1 == RDiv(width1, targetRatio)
      tooTall == RGt(RAdd(startCrop.y, height1), RInt(rect.height))
      newHeight == IF tooTall THEN RSub(RInt(rect.height), startCrop.y) ELSE height1
      newWidth == IF tooTall THEN RMul(newHeight, targetRatio) ELSE width1
  IN IF RLt(newWidth, RInt(20)) \/ RLt(newHeight, RInt(20)) THEN Null
     ELSE [startCrop EXCEPT !.width = newWidth, !.height = newHeight]

\* lines 377-378
ClampToBoundaries(newCrop, rect) ==
  [newCrop EXCEPT
     !.x = RMax(RInt(0), RMin(newCrop.x, RSub(RInt(rect.width), newCrop.width))),
     !.y = RMax(RInt(0), RMin(newCrop.y, RSub(RInt(rect.height), newCrop.height)))]

\* handleCropMouseMove (lines 338-381), the window's mousemove listener
\* between a press and its release; containerRect is the container's
\* rectangle taken at the press (line 316)
handleCropMouseMove(clientX, clientY) ==
  /\ Gesture
  /\ cropInteractionRef.startCrop # Null
  /\ LET startCrop == cropInteractionRef.startCrop
         dx == clientX - cropInteractionRef.startX
         dy == clientY - cropInteractionRef.startY
         targetRatio == IF aspectRatio = "reference" /\ attachedImageDimensions # Null
                        THEN Rat(attachedImageDimensions.width, attachedImageDimensions.height)
                        ELSE parseAspectRatio(aspectRatio)
         newCrop == IF cropInteractionRef.isDragging THEN DragMove(startCrop, dx, dy)
                    ELSE IF TruthyNumber(targetRatio)
                    THEN DragResize(startCrop, dx, targetRatio, containerRect)
                    ELSE startCrop
     IN crop' = IF newCrop = Null THEN crop ELSE ClampToBoundaries(newCrop, containerRect)
  /\ UNCHANGED <<cropInteractionRef, presses>>
  /\ UnchangedByGesture

\* onMouseUp (lines 327-332)
onMouseUp ==
  /\ Gesture
  /\ cropInteractionRef' = [cropInteractionRef EXCEPT !.isDragging = FALSE,
                                                      !.isResizing = FALSE]
  /\ UNCHANGED <<crop, presses>>
  /\ UnchangedByGesture

\* The gestures, then one submission followed to the remote call.
NextCrop ==
  \/ \E clientX \in PointerXs, clientY \in PointerYs, isResizing \in BOOLEAN :
       handleCropMouseDown(clientX, clientY, isResizing)
  \/ \E clientX \in PointerXs, clientY \in PointerYs : handleCropMouseMove(clientX, clientY)
  \/ onMouseUp
  \/ ~Gesture /\ handleGenerateClick
  \/ imageElLoaded(1)
  \/ \E resolved \in BOOLEAN : cropImageSettled(1, resolved)
  \/ \E resolved \in BOOLEAN : padImageSettled(1, resolved)

SpecCrop == InitCrop /\ [][NextCrop]_vars

\* ================================================================== claims
\* stages of a run before its finally block
InFlightStages ==
  {"imageEl", "cropImage", "cropImage again", "padImage", "generateContent", "hung"}

InFlight == {i \in 1..Len(requests) : requests[i].pc \in InFlightStages}

\* the step in which newImage.onload of run i appends its result
ResultApplied(i) ==
  /\ i \in 1..Len(requests)
  /\ requests[i].pc = "newImage"
  /\ requests' = RemoveAt(requests, i)

\* a step in which an edit attempt ends without a result: run i leaves
\* before newImage.onload is awaited, or the click itself fails for want of
\* an API key
AttemptFails ==
  \/ \E i \in InFlight : requests' = RemoveAt(requests, i)
  \/ /\ ~apiKey
     /\ requests' = requests
     /\ error' = ApiKeyMessage
     /\ error # ApiKeyMessage

\* C1: when a result is appended while the active index is i in a history of
\* length n (0 <= i < n), the new history is the old entries 0..i followed by
\* the result, and the active index becomes i + 1.
C1_HistoryBranching ==
  [][\A k \in 1..Len(requests) :
       (ResultApplied(k) /\ activeHistoryIndex >= 0 /\ activeHistoryIndex < Len(history))
       => /\ Len(history') = activeHistoryIndex + 2
          /\ SubSeq(history', 1, activeHistoryIndex + 1)
               = SubSeq(history, 1, activeHistoryIndex + 1)
          /\ history'[activeHistoryIndex + 2].id = requests[k].resultImage
          /\ activeHistoryIndex' = activeHistoryIndex + 1]_vars

\* C2: the active index is null exactly when the history is empty, and
\* otherwise 0 <= activeHistoryIndex < history.length.
C2_OneActiveEntry ==
  /\ (activeHistoryIndex = NoIndex) <=> (history = <<>>)
  /\ history # <<>> => (0 <= activeHistoryIndex /\ activeHistoryIndex < Len(history))

\* an older entry is selected and a result branching from it is about to be
\* appended
C2_Witness ==
  /\ Len(history) = 2
  /\ activeHistoryIndex = 0
  /\ \E i \in 1..Len(requests) :
       /\ requests[i].pc = "newImage"
       /\ requests[i].history = history
       /\ requests[i].activeHistoryIndex = 0

\* C3: a failed edit attempt leaves the history and the active index as they
\* were; of the session state only error and isLoading change.
C3_FailureKeepsHistory ==
  [][AttemptFails =>
       UNCHANGED <<history, activeHistoryIndex, prompt, aspectRatio, quality,
                   attachedVars, crop, isCropping, uploads, attachments>>]_vars

\* an attempt on the second entry of a history has failed at the remote call
C3_Witness ==
  /\ error = SafetyBlockedMessage
  /\ ~isLoading
  /\ Len(history) = 2
  /\ activeHistoryIndex = 1

\* C4: at most one run of handleGenerateClick is before its finally block,
\* and while one is, isLoading is set and the fieldset is disabled.
C4_OneRequestInFlight ==
  /\ Cardinality(InFlight) <= 1
  /\ InFlight # {} => (isLoading /\ fieldsetDisabled)

\* a request is awaiting the remote call while a new image is already shown
C4_Witness ==
  /\ \E i \in InFlight : requests[i].pc = "generateContent"
  /\ currentImage # Null
  /\ currentImage.id = 2

\* the messages of the three validation failures
ValidationMessages == {FileTooLargeMessage, AttachedTooLargeMessage, MissingInputMessage}

\* C5: a validation failure attempts nothing.  No upload or reference load
\* is ever pending for a file over 4 MiB and no run of handleGenerateClick
\* goes on with an empty instruction or without a current image; a step that
\* puts up a validation message changes nothing but the message.
C5_ValidationAttemptsNothing ==
  /\ [](/\ \A u \in uploads : u.file.size <= 4 * 1024 * 1024
        /\ \A a \in attachments : a.file.size <= 4 * 1024 * 1024
        /\ \A i \in 1..Len(requests) :
             /\ "prompt" \in DOMAIN requests[i] => requests[i].prompt # <<>>
             /\ "history" \in DOMAIN requests[i] =>
                  CurrentImageOf(requests[i].history, requests[i].activeHistoryIndex) # Null)
  /\ [][(error' \in ValidationMessages /\ error' # error) =>
          UNCHANGED <<history, activeHistoryIndex, prompt, isLoading, aspectRatio, quality,
                      attachedVars, crop, isCropping, effectDeps, uploads, attachments,
                      requests, nextImage, nextAttach>>]_vars

\* an oversized reference file was refused while an attached-free image is shown
C5_Witness ==
  /\ error = AttachedTooLargeMessage
  /\ currentImage # Null
  /\ attachedImage = NullText
  /\ attachments = {}

\* a target aspect ratio is in effect: a fixed ratio is selected, or "match
\* reference" is selected and a reference with known dimensions is attached
TargetInEffect ==
  \/ aspectRatio \notin {"original", "reference"}
  \/ /\ aspectRatio = "reference"
     /\ attachedImage # NullText
     /\ attachedImageDimensions # Null

\* C10: while a current image exists, cropping is active (a crop rectangle is
\* set and isCropping is true) exactly when a target aspect ratio is in
\* effect, and idle (no rectangle, isCropping false) otherwise.
C10_CroppingMode ==
  currentImage # Null =>
    IF TargetInEffect THEN crop # Null /\ isCropping
    ELSE crop = Null /\ ~isCropping

\* ------------------------------------------------ claims about one call
\* the call has sent its parts
Sent == call.pc \in {"awaiting", "settled"} /\ call.parts # <<>>
\* generateContent has settled
Settled == call.pc = "settled" /\ "sdk" \in DOMAIN call

\* "SAFETY" occurs in message m
HasMarker(m) ==
  \E i \in 1..(Len(m) - 5) :
     /\ m[i] = "S" /\ m[i + 1] = "A" /\ m[i + 2] = "F"
     /\ m[i + 3] = "E" /\ m[i + 4] = "T" /\ m[i + 5] = "Y"

\* the message of the failure raised inside the try block: the one the SDK
\* threw, or the no-image failure
FailureMessage ==
  IF "thrown" \in DOMAIN call.sdk THEN call.sdk.thrown.message ELSE NoImageMessage

\* C6: a failure of the remote call whose message contains "SAFETY" anywhere
\* is rejected, and shown, with the fixed safety-blocked message; every other
\* failure, the no-image failure included, is rejected with its own message,
\* which is never the safety-blocked one.
C6_SafetyMapping ==
  Settled =>
    /\ "thrown" \in DOMAIN call.sdk => ~call.outcome.resolved
    /\ ~call.outcome.resolved =>
         IF HasMarker(FailureMessage)
         THEN /\ call.outcome.error.message = SafetyBlockedMessage
              /\ ErrorShown(call.outcome.error) = SafetyBlockedMessage
         ELSE /\ call.outcome.error.message = FailureMessage
              /\ FailureMessage # SafetyBlockedMessage

\* the marker in the middle of a message was mapped
C6_Witness ==
  /\ Settled
  /\ "thrown" \in DOMAIN call.sdk
  /\ call.sdk.thrown.message = <<"x", " ">> \o Marker \o <<"!">>
  /\ call.outcome = Reject(NewError(SafetyBlockedMessage))

\* the parts of the first candidate of the response
FirstCandidateParts ==
  LET resp == call.sdk.response IN
  IF /\ "candidates" \in DOMAIN resp
     /\ Len(resp.candidates) >= 1
     /\ "content" \in DOMAIN resp.candidates[1]
     /\ "parts" \in DOMAIN resp.candidates[1].content
  THEN resp.candidates[1].content.parts
  ELSE <<>>

ImagePartsOf(parts) == {j \in 1..Len(parts) : "inlineData" \in DOMAIN parts[j]}

\* C7: the call resolves with the data of the first image part of the first
\* candidate; if that candidate is absent or has no image part it rejects
\* with the no-image error.
C7_FirstImagePart ==
  (Settled /\ "response" \in DOMAIN call.sdk) =>
    LET parts == FirstCandidateParts
        images == ImagePartsOf(parts)
    IN IF images # {}
       THEN LET first == CHOOSE j \in images : \A k \in images : j <= k
            IN call.outcome = Resolve(parts[first].inlineData.data)
       ELSE /\ ~call.outcome.resolved
            /\ call.outcome.error.message = NoImageMessage

\* a text part and a second image part and a second candidate were passed over
C7_Witness ==
  /\ Settled
  /\ "response" \in DOMAIN call.sdk
  /\ Len(call.sdk.response.candidates) = 2
  /\ Len(FirstCandidateParts) = 3
  /\ FirstCandidateParts[2] # FirstCandidateParts[3]
  /\ call.sdk.response.candidates[2].content.parts[1] # FirstCandidateParts[2]
  /\ call.outcome = Resolve(FirstCandidateParts[2].inlineData.data)

\* a text cut at its blank lines
RECURSIVE Sections(_)
Sections(text) ==
  IF \E k \in 1..Len(text) : text[k] = "\n\n"
  THEN LET k == CHOOSE j \in 1..Len(text) :
                  text[j] = "\n\n" /\ \A m \in 1..(j - 1) : text[m] # "\n\n"
       IN <<SubSeq(text, 1, k - 1)>> \o Sections(SubSeq(text, k + 1, Len(text)))
  ELSE <<text>>

AnySize == [width |-> 1, height |-> 1]

\* which of the fixed sections a section is, by the text it opens with
SectionKind(section) ==
  IF section = <<>> THEN "empty"
  ELSE CASE section[1] = dimensionRule(AnySize, "16:9")[1] -> "dimension rule, outpainting"
         [] section[1] = dimensionRule(AnySize, "original")[1] -> "dimension rule, no resize"
         [] section[1] = editTask(<<>>, "16:9")[1] -> "edit task, outpainting"
         [] section[1] = editTask(<<>>, "original")[1] -> "edit task"
         [] section[1] = referenceRule[1] -> "reference caveat"
         [] section[1] = "**QUALIDADE:** " -> "quality directive"
         [] OTHER -> "other"

\* the instruction contains a quality keyword, whatever the case
HasQualityKeyword(text) ==
  \E i \in 1..Len(qualityKeywords) :
    \E at \in 0..(Len(text) - Len(qualityKeywords[i])) :
      \A k \in 1..Len(qualityKeywords[i]) : LowerOf(text[at + k]) = qualityKeywords[i][k]

\* the text part of the sent parts
SentText == call.parts[Len(call.parts)].text

\* reference data was passed to the call
ReferenceAttached ==
  call.args.attachedImageBase64 # NullText /\ call.args.attachedImageBase64 # <<>>

\* C8: the compiled prompt is, in this order and joined by blank lines: the
\* dimension rule and the edit task, both in outpainting phrasing exactly
\* when the aspect ratio is not "original"; the reference caveat exactly when
\* a reference is attached; the quality directive exactly when the quality
\* is not standard or the instruction has a quality keyword.
C8_PromptSections ==
  Sent =>
    LET outpainting == call.args.aspectRatio # "original"
        wantQuality == call.args.quality # "standard" \/ HasQualityKeyword(call.args.prompt)
        sections == Sections(SentText)
    IN [i \in 1..Len(sections) |-> SectionKind(sections[i])]
       = <<IF outpainting THEN "dimension rule, outpainting" ELSE "dimension rule, no resize",
           IF outpainting THEN "edit task, outpainting" ELSE "edit task">>
         \o (IF ReferenceAttached THEN <<"reference caveat">> ELSE <<>>)
         \o (IF wantQuality THEN <<"quality directive">> ELSE <<>>)

\* all four sections, the quality directive for a keyword in capitals alone
C8_Witness ==
  /\ Sent
  /\ call.args.aspectRatio = "16:9"
  /\ ReferenceAttached
  /\ call.args.quality = "standard"
  /\ call.args.prompt = <<"M", "A", "I", "S", " ", "N", "I-acute", "T", "I", "D", "O">>
  /\ Len(Sections(SentText)) = 4

\* C9: the first part is the primary image, the second part is the reference
\* image exactly when one is attached, the last part is the one text part,
\* carrying the compiled prompt, and no image part follows it.
C9_PayloadOrder ==
  Sent =>
    LET parts == call.parts
        n == Len(parts)
        texts == {j \in 1..n : "text" \in DOMAIN parts[j]}
    IN /\ n >= 2
       /\ "inlineData" \in DOMAIN parts[1]
       /\ parts[1].inlineData.data = call.args.base64ImageData
       /\ ReferenceAttached <=>
            /\ "inlineData" \in DOMAIN parts[2]
            /\ parts[2].inlineData.data = call.args.attachedImageBase64
       /\ texts = {n}
       /\ parts[n].text = enhancedPrompt(call.args.prompt, call.args.attachedImageBase64,
                                         call.args.dimensions, call.args.aspectRatio,
                                         call.args.quality)

\* ------------------------------------------- claims about the session, II
\* a reference image is attached (the state the select's option reads, line 459)
ReferencePresent == attachedImage # NullText

\* C11: in every state, the first one included, aspectRatio = "reference"
\* implies that a reference image is attached.
C11_ReferenceModeNeedsReference ==
  aspectRatio = "reference" => ReferencePresent

\* the other half of C11: removing the reference leaves no "reference" mode
RemovalResetsMode ==
  [][(ReferencePresent /\ ~ReferencePresent') => aspectRatio' # "reference"]_vars

\* ------------------------------------- padImage, one raster alone (116-168)
\* sizes of the rasters given to padImage: outputs of cropImage and others
PadSources ==
  {[width |-> 600, height |-> 338], [width |-> 1000, height |-> 563],
   [width |-> 24, height |-> 13], [width |-> 1009, height |-> 100],
   [width |-> 800, height |-> 600], [width |-> 600, height |-> 800],
   [width |-> 500, height |-> 500], [width |-> 640, height |-> 360]}
\* the fixed ratios of the aspect-ratio select
PadRatios == AspectRatioOptions \ {"original", "reference"}

InitPad ==
  /\ history = <<>>
  /\ activeHistoryIndex = NoIndex
  /\ prompt = <<>>
  /\ isLoading = FALSE
  /\ error = NullText
  /\ aspectRatio = "original"
  /\ quality = "standard"
  /\ attachedImage = NullText
  /\ attachedImageBase64 = NullText
  /\ attachedImageMimeType = NullText
  /\ attachedImageName = NullText
  /\ attachedImageDimensions = Null
  /\ crop = Null
  /\ isCropping = FALSE
  /\ effectDeps = DepsOf(aspectRatio, Null, Null)
  /\ uploads = {}
  /\ attachments = {}
  /\ requests = <<>>
  /\ nextImage = 1
  /\ nextAttach = 1
  /\ apiKey = TRUE
  /\ call = [pc |-> "none"]
  /\ cropInteractionRef = NoInteraction
  /\ presses = 0
  /\ \E d \in PadSources, r \in PadRatios :
       canvas = [pc |-> "raster", targetAspectRatio |-> parseAspectRatio(r),
                 dimensions |-> <<d>>]

\* padImage resolves (lines 122-162) for the raster last made, with the same
\* target ratio; dimensions lists the source's size and each result's
padImage ==
  /\ canvas.pc = "raster"
  /\ Len(canvas.dimensions) < 3
  /\ canvas' = [canvas EXCEPT
                  !.dimensions = Append(@, PadDimensions(@[Len(@)], canvas.targetAspectRatio))]
  /\ UNCHANGED <<history, activeHistoryIndex, prompt, isLoading, error, aspectRatio,
                 quality, attachedVars, crop, isCropping, effectDeps, uploads,
                 attachments, requests, nextImage, nextAttach, apiKey, call,
                 cropInteractionRef, presses>>

NextPad == padImage

SpecPad == InitPad /\ [][NextPad]_vars

\* ------------------------------------------- claims about the crop gestures
RGe(a, b) == ~RLt(a, b)
RLe(a, b) == ~RGt(a, b)

\* a step taken while the resize handle is held and not released
ResizeStep == cropInteractionRef.isResizing /\ UNCHANGED cropInteractionRef

\* the target ratio of the current selection
CurrentTargetRatio == TargetAspectRatio(aspectRatio, attachedImageDimensions)

\* C12: a resize step leaves the crop rectangle unchanged, or sets one that is
\* at least 20 pixels wide and high, whose height is its width divided by the
\* target ratio, and whose right and bottom edges are within the bounds.
C12_ResizeKeepsRatioAndBounds ==
  [][ResizeStep =>
       \/ crop' = crop
       \/ /\ RGe(crop'.width, RInt(20))
          /\ RGe(crop'.height, RInt(20))
          /\ crop'.height = RDiv(crop'.width, CurrentTargetRatio)
          /\ RLe(RAdd(crop'.x, crop'.width), RInt(containerRect.width))
          /\ RLe(RAdd(crop'.y, crop'.height), RInt(containerRect.height))]_vars

\* a resize that grew the rectangle and met neither bound
C12_Witness ==
  /\ cropInteractionRef.isResizing
  /\ RGt(crop.width, cropInteractionRef.startCrop.width)
  /\ RLt(RAdd(crop.x, crop.width), RInt(containerRect.width))
  /\ RLt(RAdd(crop.y, crop.height), RInt(containerRect.height))

\* the contain-fit box of the current image, the frame the crop effect
\* centres the rectangle in (lines 130-156)
Rendered == RenderedSize(currentImage.dimensions)

\* rectangle c lies in the rendered image
InsideRendered(c) ==
  /\ RGe(c.x, RInt(0))
  /\ RLe(c.x, RSub(Rendered.width, c.width))
  /\ RGe(c.y, RInt(0))
  /\ RLe(c.y, RSub(Rendered.height, c.height))

\* a step taken while the crop box is held and not released
DragStep == cropInteractionRef.isDragging /\ UNCHANGED cropInteractionRef

\* C13: a drag-move step keeps the rectangle's width and height and, from a
\* rectangle in the rendered image, leaves it in the rendered image:
\* 0 <= x <= renderedWidth - width and 0 <= y <= renderedHeight - height.
C13_MoveStaysInRenderedImage ==
  [][(DragStep /\ InsideRendered(crop)) =>
       /\ crop'.width = crop.width
       /\ crop'.height = crop.height
       /\ InsideRendered(crop')]_vars

\* --------------------------------------------------- claims about padImage
\* C14: padding the result of padImage again to the same target ratio gives
\* a raster of the same width and height as the first result.
C14_PadIdempotent ==
  (canvas.pc = "raster" /\ Len(canvas.dimensions) = 3) =>
     canvas.dimensions[3] = canvas.dimensions[2]

\* the second padding of an output of cropImage left it as it was
PadRepeated ==
  /\ canvas.pc = "raster"
  /\ Len(canvas.dimensions) = 3
  /\ canvas.dimensions[1] = [width |-> 600, height |-> 338]
  /\ canvas.dimensions[2] # canvas.dimensions[1]
  /\ canvas.dimensions[3] = canvas.dimensions[2]

\* ------------------------------------------ claims about the session, III
\* the run that is in flight (there is at most one, C4) and its stage
TheRun == requests[CHOOSE i \in InFlight : TRUE]
Stage == IF InFlight = {} THEN "none" ELSE TheRun.pc

\* C15: the steps of a request run in sequence: cropImage is called after the
\* image has loaded, padImage after cropImage has resolved, and the remote
\* call is issued either at once by a request that crops nothing, or after
\* padImage has resolved, with padImage's output as the image and with the
\* prompt compiled for that output; after a failed crop or pad no call is
\* issued.
C15_StepsInSequence ==
  [][/\ (Stage' = "cropImage" /\ Stage # "cropImage") => Stage = "imageEl"
     /\ (Stage' = "padImage" /\ Stage # "padImage") =>
          /\ Stage = "cropImage"
          /\ TheRun'.croppedBase64
               = CroppedData(TheRun.currentImage, CropRect(TheRun.pixelCrop))
     /\ (Stage' = "generateContent" /\ Stage # "generateContent") =>
          \/ /\ Stage = "none"
             /\ ~(isCropping /\ crop # Null)
             /\ TheRun'.sent = "original"
             /\ TheRun'.parts[1].inlineData.data = currentImage.base64
          \/ /\ Stage = "padImage"
             /\ TheRun'.sent = "padded"
             /\ LET target == TargetAspectRatio(TheRun.aspectRatio,
                                                TheRun.attachedImageDimensions)
                    source == CropDimensions(TheRun.pixelCrop)
                    sentParts == TheRun'.parts
                IN /\ sentParts[1].inlineData.data
                        = PaddedData(TheRun.croppedBase64, PadLayout(source, target))
                   /\ sentParts[Len(sentParts)].text
                        = enhancedPrompt(TheRun.prompt, TheRun.attachedImageBase64,
                                         PadDimensions(source, target),
                                         TheRun.aspectRatio, TheRun.quality)]_vars

\* a request that went through crop and pad awaits the remote call
C15_Witness ==
  /\ Stage = "generateContent"
  /\ TheRun.sent = "padded"

\* a continuation of run i: an asynchronous step it awaits succeeds or fails
RequestStep(i) ==
  \/ imageElLoaded(i)
  \/ imageElError(i)
  \/ \E resolved \in BOOLEAN : cropImageSettled(i, resolved)
  \/ \E resolved \in BOOLEAN : padImageSettled(i, resolved)
  \/ \E sdk \in SessionSdkOutcomes : generateContentSettled(i, sdk)

\* a step in which a run leaves its try block for good
RunEnds == \E i \in InFlight : requests' = RemoveAt(requests, i)

\* C16: a request that was started runs to an outcome: while it is in flight
\* some step of it can still succeed or fail, and the step that ends it sets
\* an error message or leaves a result to be appended to the history, with
\* the loading flag cleared.
C16_RequestsRunToAnOutcome ==
  /\ [](\A i \in InFlight : ENABLED RequestStep(i))
  /\ [][\A i \in InFlight :
          (requests[i].pc \in InFlightStages
           /\ (requests' = RemoveAt(requests, i)
               \/ (Len(requests') = Len(requests) /\ requests'[i].pc \notin InFlightStages)))
          => /\ ~isLoading'
             /\ \/ error' # NullText
                \/ (Len(requests') = Len(requests) /\ requests'[i].pc = "newImage")]_vars

\* the prompt of run r is in outpainting phrasing
OutpaintingPhrasing(r) ==
  SectionKind(Sections(r.parts[Len(r.parts)].text)[2]) = "edit task, outpainting"

\* C17: in every edit request the prompt is in outpainting phrasing (the
\* aspect ratio is not "original") exactly when the image sent is the output
\* of padImage.
C17_OutpaintingIffPadded ==
  \A i \in 1..Len(requests) :
    requests[i].pc = "generateContent" =>
      /\ OutpaintingPhrasing(requests[i]) <=> isOutpaintingTask(requests[i].aspectRatio)
      /\ OutpaintingPhrasing(requests[i]) <=> requests[i].sent = "padded"

\* the images a history holds
HistoryIds(h) == {h[j].id : j \in 1..Len(h)}

\* C18: when the result of an edit is appended, the history holds no entry
\* that a reset or an upload committed since the submission had discarded
\* (every entry other than the result is an entry of the history as it was
\* just before), and the image that was current just before is still in it.
C18_ResultKeepsNewerState ==
  [][\A k \in 1..Len(requests) :
       ResultApplied(k) =>
         /\ (HistoryIds(history') \ {requests[k].resultImage}) \subseteq HistoryIds(history)
         /\ history # <<>> => currentImage.id \in HistoryIds(history')]_vars

\* the compiled prompt of the call carries the reference caveat
CaveatInPrompt ==
  \E j \in 1..Len(Sections(SentText)) :
    SectionKind(Sections(SentText)[j]) = "reference caveat"

\* the payload of the call has a second image part
SecondImagePart ==
  Cardinality({j \in 1..Len(call.parts) : "inlineData" \in DOMAIN call.parts[j]}) >= 2

\* C19: for every input to the remote edit operation, the compiled prompt
\* contains the reference caveat exactly when the payload contains a second
\* image part.
C19_CaveatIffSecondImage == Sent => (CaveatInPrompt <=> SecondImagePart)

\* the display-space rectangle c lies inside the rendered box of an image of
\* the given native size
InsideRenderedOf(c, dimensions) ==
  /\ RGe(c.x, RInt(0))
  /\ RGe(c.y, RInt(0))
  /\ RGt(c.width, RInt(0))
  /\ RGt(c.height, RInt(0))
  /\ RLe(RAdd(c.x, c.width), RenderedSize(dimensions).width)
  /\ RLe(RAdd(c.y, c.height), RenderedSize(dimensions).height)

\* C20: for every display-space crop rectangle lying inside the rendered
\* image, the rectangle cropImage draws satisfies x >= 0, y >= 0, width >= 1,
\* height >= 1, x + width <= native width and y + height <= native height.
C20_CropRectInsideSource ==
  \A i \in 1..Len(requests) :
    (requests[i].pc = "cropImage"
       /\ InsideRenderedOf(requests[i].crop, requests[i].currentImage.dimensions)) =>
      LET rect == CropRect(requests[i].pixelCrop)
          native == requests[i].currentImage.dimensions
      IN /\ rect.x >= 0
         /\ rect.y >= 0
         /\ rect.width >= 1
         /\ rect.height >= 1
         /\ rect.x + rect.width <= native.width
         /\ rect.y + rect.height <= native.height

====
